---- MODULE Spec2Model ----
(***************************************************************************)
(* Momentum trading script (SEPH-GHAFARZADEH-FINAL.py), Parts 1 and 2.     *)
(*                                                                         *)
(* The script is one top-to-bottom batch computation over pandas tables.   *)
(* The state is the script's module-level tables; every statement (or loop *)
(* iteration) of the script is one action, taken in program order.         *)
(*                                                                         *)
(* Numbers are exact rationals <<n, d>> in lowest terms, d > 0; the pandas *)
(* missing value NaN is <<0, 0>>.  Floating-point rounding is not          *)
(* modelled.  A DataFrame is a function ticker -> (date -> value), a       *)
(* Series a function date -> value, dates being 1..NumDates in order.      *)
(*                                                                         *)
(* The window lengths of the script (5, 30, 60, 90, 120) are scaled to     *)
(* WinA < WinB < WinC so that the date range stays explorable: WinA plays  *)
(* 5 (ranked and held), WinB plays 30/90 (ranked only), WinC plays 60/120  *)
(* (held only); the portfolio statements are the four pairs of a ranked    *)
(* and a held window instead of nine.  The bucket size 5 and the weight    *)
(* 0.2 are the script's.  The market index (snp_prices, market_premium)    *)
(* and Part 3, which only read the tables built here, are left out.        *)
(***************************************************************************)
EXTENDS Integers, Sequences, FiniteSets, TLC

VARIABLES stock_prices, risk_free, stock_rets, stock_premium, form, hpr,
          f_ranks, f_max, port, cumrets, pc, idx

vars == <<stock_prices, risk_free, stock_rets, stock_premium, form, hpr,
          f_ranks, f_max, port, cumrets, pc, idx>>

----------------------------------------------------------------------------
(* Bounds of the model *)

\* number of dates of the input files
NumDates == 7
\* tickers of the widest price table
MaxTickers == 10
\* the wide price tables have WideSpan + 1 different widths
WideSpan == 2
\* at most this many tickers of a wide table are listed late
MaxLate == 2
\* scaled window lengths
WinA == 2
WinB == 3
WinC == 4
\* first date with a price of a ticker that is listed late
LateDate == 3
\* prices and risk-free rates of the exhaustively enumerated inputs
PriceValues == {1, 2}
RateValues == {0, 1}
\* dates on which the risk-free file may lack a row
GapDates == {3, 5}
\* the last tickers of the blocks of equal growth in the wide price tables
BlockEnds == {0, 1, 4, 6, MaxTickers}

(* Program constants *)

\* bucket size: the literal 5 of "ranks <= 5" and "f_max - 5"
K == 5
\* the weight 0.2 is WeightNum / WeightDen
WeightNum == 1
WeightDen == 5

Dates == 1..NumDates

FormWindows == <<WinA, WinB, WinC>>
HoldWindows == <<WinA, WinC>>
RankWindows == <<WinA, WinB>>
\* the portfolio statements in program order: (formation, holding)
Portfolios ==
    <<
      <<WinA, WinA>>, <<WinA, WinC>>,
      <<WinB, WinA>>, <<WinB, WinC>>
    >>

----------------------------------------------------------------------------
(* Exact arithmetic with the missing value *)

NaN == <<0, 0>>

IsNaN(x) == x[2] = 0

Abs(n) == IF n < 0 THEN -n ELSE n

RECURSIVE GCD(_, _)
GCD(a, b) == IF b = 0 THEN a ELSE GCD(b, a % b)

Rat(n, d) ==
    IF d = 0 THEN NaN
    ELSE LET g == GCD(Abs(n), Abs(d))
             s == IF d < 0 THEN -1 ELSE 1
         IN  <<(s * n) \div g, (s * d) \div g>>

Num(n) == <<n, 1>>

FAdd(x, y) == IF IsNaN(x) \/ IsNaN(y) THEN NaN
              ELSE Rat(x[1] * y[2] + y[1] * x[2], x[2] * y[2])

FSub(x, y) == IF IsNaN(x) \/ IsNaN(y) THEN NaN
              ELSE Rat(x[1] * y[2] - y[1] * x[2], x[2] * y[2])

FMul(x, y) == IF IsNaN(x) \/ IsNaN(y) THEN NaN
              ELSE Rat(x[1] * y[1], x[2] * y[2])

\* the divisor is a price, positive in every input drawn here
FDiv(x, y) == IF IsNaN(x) \/ IsNaN(y) THEN NaN
              ELSE Rat(x[1] * y[2], x[2] * y[1])

\* comparisons with NaN are False
FLe(x, y) == ~IsNaN(x) /\ ~IsNaN(y) /\ x[1] * y[2] <= y[1] * x[2]
FGe(x, y) == ~IsNaN(x) /\ ~IsNaN(y) /\ x[1] * y[2] >= y[1] * x[2]
FGt(x, y) == ~IsNaN(x) /\ ~IsNaN(y) /\ x[1] * y[2] > y[1] * x[2]
FEq(x, y) == ~IsNaN(x) /\ ~IsNaN(y) /\ x = y

\* sum of f over a finite set of indices
RECURSIVE SumOver(_, _)
SumOver(S, f) ==
    IF S = {} THEN Num(0)
    ELSE LET i == CHOOSE j \in S : TRUE
         IN  FAdd(f[i], SumOver(S \ {i}, f))

\* product of the elements of a finite sequence, as numpy's prod
RECURSIVE ProdSeq(_)
ProdSeq(s) ==
    IF s = <<>> THEN Num(1) ELSE FMul(Head(s), ProdSeq(Tail(s)))

----------------------------------------------------------------------------
(* pandas operations used by the script *)

Tickers(df) == DOMAIN df

\* DataFrame.pct_change(): value over the previous row's value, minus 1
pct_change(df) ==
    [tk \in Tickers(df) |->
        [t \in Dates |->
            IF t = 1 THEN NaN
            ELSE FSub(FDiv(df[tk][t], df[tk][t - 1]), Num(1))]]

\* Series - Series, aligned on the date index
SeriesAdd(a, b) == [t \in Dates |-> FAdd(a[t], b[t])]

SeriesSub(a, b) == [t \in Dates |-> FSub(a[t], b[t])]

\* the lambda of the formation loop: (1 + r).prod() - 1 on a raw window
Compound(r) ==
    FSub(ProdSeq([k \in DOMAIN r |-> FAdd(Num(1), r[k])]), Num(1))

\* (faulty variant: the window is one observation short)
RollingShort(df, window) ==
    [tk \in Tickers(df) |->
        [t \in Dates |->
            IF t < window - 1 \/ window < 2 THEN NaN
            ELSE LET w == [k \in 1..(window - 1) |-> df[tk][t - window + 1 + k]]
                 IN  IF Cardinality({k \in DOMAIN w : ~IsNaN(w[k])}) < window - 1
                     THEN NaN
                     ELSE Compound(w)]]

\* DataFrame.rolling(window).apply(f, raw = True): min_periods = window, so
\* a row with fewer than window non-missing observations in its trailing
\* window is NaN
rolling_apply(df, window) ==
    [tk \in Tickers(df) |->
        [t \in Dates |->
            IF t < window THEN NaN
            ELSE LET w == [k \in 1..window |-> df[tk][t - window + k]]
                 IN  IF Cardinality({k \in DOMAIN w : ~IsNaN(w[k])}) < window
                     THEN NaN
                     ELSE Compound(w)]]

\* (faulty variant: the rows move the other way)
ShiftForward(df, periods) ==
    [tk \in Tickers(df) |->
        [t \in Dates |->
            IF t + periods \in Dates THEN df[tk][t + periods] ELSE NaN]]

\* DataFrame.shift(periods): row t takes the value of row t - periods
shift(df, periods) ==
    [tk \in Tickers(df) |->
        [t \in Dates |->
            IF t - periods \in Dates THEN df[tk][t - periods] ELSE NaN]]

\* (faulty variant: na_option = 'bottom', a missing value is ranked last)
RankNaBottom(df) ==
    [tk \in Tickers(df) |->
        [t \in Dates |->
            LET v == df[tk][t]
                present == {o \in Tickers(df) : ~IsNaN(df[o][t])}
                greater == {o \in present : FGt(df[o][t], v)}
                equal   == {o \in present : FEq(df[o][t], v)}
            IN  IF IsNaN(v) THEN Num(Cardinality(present) + 1)
                ELSE Rat(2 * Cardinality(greater) + Cardinality(equal) + 1, 2)]]

\* DataFrame.rank(axis = 1, ascending = False): the defaults are
\* method = 'average' (tied values share the mean of the positions they
\* span) and na_option = 'keep' (a missing value has rank NaN)
rank(df) ==
    [tk \in Tickers(df) |->
        [t \in Dates |->
            LET v == df[tk][t]
                greater == {o \in Tickers(df) : FGt(df[o][t], v)}
                equal   == {o \in Tickers(df) : FEq(df[o][t], v)}
            IN  IF IsNaN(v) THEN NaN
                ELSE Rat(2 * Cardinality(greater) + Cardinality(equal) + 1, 2)]]

\* DataFrame.max(axis = 1): the largest non-missing value of each row, NaN
\* for a row of missing values
row_max(df) ==
    [t \in Dates |->
        LET present == {tk \in Tickers(df) : ~IsNaN(df[tk][t])}
        IN  IF present = {} THEN NaN
            ELSE LET m == CHOOSE a \in present :
                              \A b \in present : FGe(df[a][t], df[b][t])
                 IN  df[m][t]]

\* Series - scalar
SeriesSubScalar(s, c) == [t \in Dates |-> FSub(s[t], Num(c))]

\* DataFrame.eq(series, axis = 0): a table of booleans
eq_axis0(df, s) ==
    [tk \in Tickers(df) |-> [t \in Dates |-> FEq(df[tk][t], s[t])]]

\* DataFrame <= scalar
le_scalar(df, c) ==
    [tk \in Tickers(df) |-> [t \in Dates |-> FLe(df[tk][t], Num(c))]]

\* DataFrame >= DataFrame of booleans: True compares as 1, False as 0
ge_bool(df, b) ==
    [tk \in Tickers(df) |->
        [t \in Dates |-> FGe(df[tk][t], Num(IF b[tk][t] THEN 1 ELSE 0))]]

\* DataFrame >= Series along axis 0 (not used by the script)
ge_axis0(df, s) ==
    [tk \in Tickers(df) |-> [t \in Dates |-> FGe(df[tk][t], s[t])]]

\* df[mask]: the value where the mask is True, NaN elsewhere
Where(df, mask) ==
    [tk \in Tickers(df) |->
        [t \in Dates |-> IF mask[tk][t] THEN df[tk][t] ELSE NaN]]

\* df.apply(lambda r: (w * r).sum(), axis = 1): Series.sum() skips missing
\* values and is 0 for a row without values
WeightedRowSum(df, w) ==
    [t \in Dates |->
        SumOver({tk \in Tickers(df) : ~IsNaN(df[tk][t])},
                [tk \in Tickers(df) |-> FMul(w, df[tk][t])])]

\* Series.cumprod(): running product that skips missing values and leaves
\* them missing
RECURSIVE RunningProd(_, _)
RunningProd(s, t) ==
    IF t = 0 THEN Num(1)
    ELSE IF IsNaN(s[t]) THEN RunningProd(s, t - 1)
    ELSE FMul(RunningProd(s, t - 1), s[t])

\* (faulty variant: a running sum)
RECURSIVE RunningSum(_, _)
RunningSum(s, t) ==
    IF t = 0 THEN Num(0)
    ELSE IF IsNaN(s[t]) THEN RunningSum(s, t - 1)
    ELSE FAdd(RunningSum(s, t - 1), s[t])

CumSum(s) == [t \in Dates |-> IF IsNaN(s[t]) THEN NaN ELSE RunningSum(s, t)]

cumprod(s) == [t \in Dates |-> IF IsNaN(s[t]) THEN NaN ELSE RunningProd(s, t)]

----------------------------------------------------------------------------
(* The expressions of a portfolio statement *)

Weight == Rat(WeightNum, WeightDen)

\* f_ranks <= 5
LongMask(ranks) == le_scalar(ranks, K)

\* the bottom of the ranking, rank >= maxRank - 5: what the docstring of
\* lines 99-121 describes and the statement does not compute
BottomMask(ranks, max) == ge_axis0(ranks, SeriesSubScalar(max, K))

\* f_ranks >= f_ranks.eq((f_max - 5), axis = 0)
ShortMask(ranks, max) ==
    ge_bool(ranks, eq_axis0(ranks, SeriesSubScalar(max, K)))

\* hpr[H][long].apply(0.2 * r) + hpr[H][short].apply(-0.2 * r)
DailyReturns(holding, ranks, max) ==
    SeriesAdd(WeightedRowSum(Where(holding, LongMask(ranks)), Weight),
              WeightedRowSum(Where(holding, ShortMask(ranks, max)),
                             FSub(Num(0), Weight)))

\* (1 + rets).cumprod() - 1
CumulativeReturns(rets) ==
    LET gross == cumprod([t \in Dates |-> FAdd(Num(1), rets[t])])
    IN  [t \in Dates |-> FSub(gross[t], Num(1))]

----------------------------------------------------------------------------
(* Inputs: the tables after lines 18-29 (read_csv, pivot, ffill).  After the
   forward fill a price column is missing only before the ticker's first
   price. *)

RECURSIVE Pow(_, _)
Pow(g, e) == IF e = 0 THEN 1 ELSE g * Pow(g, e - 1)

\* one ticker, every price path over PriceValues
NarrowPrices ==
    { (1 :> [t \in Dates |-> Num(p[t])]) : p \in [Dates -> PriceValues] }

\* a flat rate, missing on at most one date (gap 0: on none)
NarrowRates ==
    { [t \in Dates |-> IF t = gap THEN NaN ELSE Num(r)] :
        r \in RateValues, gap \in {0} \cup GapDates }

\* price of a ticker that grows by the factor g every date from its first
GrowthPath(g, first) ==
    [t \in Dates |-> IF t < first THEN NaN ELSE Num(Pow(g, t - first))]

\* the growth factor of ticker i of n: the factors 1, 2, 3 in blocks that end
\* at a and b, in ticker order or reversed, or the factor i
Factor(i, n, a, b, shape) ==
    LET j == IF shape = "reversed" THEN n + 1 - i ELSE i
    IN  IF shape = "distinct" THEN i
        ELSE IF j <= a THEN 1 ELSE IF j <= b THEN 2 ELSE 3

\* many tickers, the first `late` of them listed on LateDate
WidePrices ==
    { [i \in 1..n |->
          GrowthPath(Factor(i, n, a, b, shape),
                     IF i <= late THEN LateDate ELSE 1)] :
        n \in (MaxTickers - WideSpan)..MaxTickers,
        a \in BlockEnds, b \in BlockEnds,
        shape \in {"blocks", "reversed", "distinct"},
        late \in 0..MaxLate }

WideRates == { [t \in Dates |-> Num(0)] }

Empty == <<>>

Init ==
    /\ \/ stock_prices \in NarrowPrices /\ risk_free \in NarrowRates
       \/ stock_prices \in WidePrices /\ risk_free \in WideRates
    /\ stock_rets = Empty
    /\ stock_premium = Empty
    /\ form = Empty
    /\ hpr = Empty
    /\ f_ranks = Empty
    /\ f_max = Empty
    /\ port = Empty
    /\ cumrets = Empty
    /\ pc = "rets"
    /\ idx = 1

----------------------------------------------------------------------------
(* Part 1 - data preparation *)

\* the tickers in column order
TickerSeq == [i \in 1..Cardinality(Tickers(stock_prices)) |-> i]

\* line 37: stock_rets = stock_prices.pct_change()
Returns ==
    /\ pc = "rets"
    /\ stock_rets' = pct_change(stock_prices)
    /\ pc' = "copy"
    /\ UNCHANGED <<stock_prices, risk_free, stock_premium, form, hpr,
                   f_ranks, f_max, port, cumrets, idx>>

\* line 46: stock_premium = stock_rets.copy()
CopyReturns ==
    /\ pc = "copy"
    /\ stock_premium' = stock_rets
    /\ pc' = "premium"
    /\ idx' = 1
    /\ UNCHANGED <<stock_prices, risk_free, stock_rets, form, hpr,
                   f_ranks, f_max, port, cumrets>>

\* (faulty variant: the rate is added)
PremiumColumnPlus(rets, rf) == SeriesAdd(rets, rf)

\* line 55: one column of the premium table, returns minus risk_free['rf']
PremiumColumn(rets, rf) == SeriesSub(rets, rf)

\* lines 54-55: one iteration of the loop over the tickers
Premium ==
    /\ pc = "premium"
    /\ idx <= Len(TickerSeq)
    /\ LET ticker == TickerSeq[idx]
       IN  stock_premium' =
             [stock_premium EXCEPT
                ![ticker] = PremiumColumn(stock_rets[ticker], risk_free)]
    /\ IF idx = Len(TickerSeq)
       THEN pc' = "form" /\ idx' = 1
       ELSE pc' = pc /\ idx' = idx + 1
    /\ UNCHANGED <<stock_prices, risk_free, stock_rets, form, hpr,
                   f_ranks, f_max, port, cumrets>>

\* lines 64-66: one iteration of the loop over the formation windows
Formation ==
    /\ pc = "form"
    /\ idx <= Len(FormWindows)
    /\ LET window == FormWindows[idx]
       IN  form' = (window :> rolling_apply(stock_premium, window)) @@ form
    /\ IF idx = Len(FormWindows)
       THEN pc' = "hpr" /\ idx' = 1
       ELSE pc' = pc /\ idx' = idx + 1
    /\ UNCHANGED <<stock_prices, risk_free, stock_rets, stock_premium, hpr,
                   f_ranks, f_max, port, cumrets>>

\* lines 76-77: one iteration of the loop over the holding windows
Holding ==
    /\ pc = "hpr"
    /\ idx <= Len(HoldWindows)
    /\ LET window == HoldWindows[idx]
       IN  hpr' = (window :> shift(form[window], -window)) @@ hpr
    /\ IF idx = Len(HoldWindows)
       THEN pc' = "ranks" /\ idx' = 1
       ELSE pc' = pc /\ idx' = idx + 1
    /\ UNCHANGED <<stock_prices, risk_free, stock_rets, stock_premium, form,
                   f_ranks, f_max, port, cumrets>>

----------------------------------------------------------------------------
(* Part 2 - algorithm execution *)

\* lines 92-97: the rank table and the row maxima of one formation window
Ranks ==
    /\ pc = "ranks"
    /\ idx <= Len(RankWindows)
    /\ LET F == RankWindows[idx]
       IN  /\ f_ranks' = (F :> rank(form[F])) @@ f_ranks
           /\ f_max' = (F :> row_max(rank(form[F]))) @@ f_max
    /\ IF idx = Len(RankWindows)
       THEN pc' = "port" /\ idx' = 1
       ELSE pc' = pc /\ idx' = idx + 1
    /\ UNCHANGED <<stock_prices, risk_free, stock_rets, stock_premium, form,
                   hpr, port, cumrets>>

\* lines 123-216: one portfolio statement and its cumulative returns
Portfolio ==
    /\ pc = "port"
    /\ idx <= Len(Portfolios)
    /\ LET F == Portfolios[idx][1]
           H == Portfolios[idx][2]
           rets == DailyReturns(hpr[H], f_ranks[F], f_max[F])
       IN  /\ port' = (Portfolios[idx] :> rets) @@ port
           /\ cumrets' = (Portfolios[idx] :> CumulativeReturns(rets)) @@ cumrets
    /\ IF idx = Len(Portfolios)
       THEN pc' = "done" /\ idx' = 1
       ELSE pc' = pc /\ idx' = idx + 1
    /\ UNCHANGED <<stock_prices, risk_free, stock_rets, stock_premium, form,
                   hpr, f_ranks, f_max>>

Next ==
    \/ Returns
    \/ CopyReturns
    \/ Premium
    \/ Formation
    \/ Holding
    \/ Ranks
    \/ Portfolio

Spec == Init /\ [][Next]_vars

----------------------------------------------------------------------------
(* Properties *)

AllTickers == Tickers(stock_prices)

\* the premium table is complete once the loop of lines 54-55 has ended
PremiumDone == pc \in {"form", "hpr", "ranks", "port", "done"}

\* product of (1 + premium) over the k dates that end at t
RECURSIVE WindowGrowth(_, _, _)
WindowGrowth(prem, t, k) ==
    IF k = 0 THEN Num(1)
    ELSE FMul(FAdd(Num(1), prem[t - k + 1]), WindowGrowth(prem, t, k - 1))

WindowComplete(prem, t, W) ==
    /\ t >= W
    /\ \A k \in 0..(W - 1) : ~IsNaN(prem[t - k])

\* C5: for every window W, ticker and date t, the formation return is the
\* product of (1 + premium) over the W dates ending at t, minus 1, when all
\* W premiums exist, and is missing (not zero) otherwise.
C5_FormationIsTrailingProduct ==
    \A W \in DOMAIN form : \A tk \in AllTickers : \A t \in Dates :
        IF WindowComplete(stock_premium[tk], t, W)
        THEN form[W][tk][t] =
               FSub(WindowGrowth(stock_premium[tk], t, W), Num(1))
        ELSE IsNaN(form[W][tk][t])

\* a formation return that is a real compounded value, and, later in the same
\* column, one that is missing because a premium inside its window is
C5_Witness ==
    \E W \in DOMAIN form : \E tk \in AllTickers : \E t1, t2 \in Dates :
        /\ W >= 2
        /\ ~IsNaN(form[W][tk][t1])
        /\ form[W][tk][t1] # Num(0)
        /\ form[W][tk][t1] # stock_premium[tk][t1]
        /\ t2 > t1
        /\ IsNaN(form[W][tk][t2])

HoldingIsFormationAhead ==
    \A H \in DOMAIN hpr : \A tk \in AllTickers : \A t \in Dates :
        hpr[H][tk][t] =
            IF t + H <= NumDates THEN form[H][tk][t + H] ELSE NaN

\* C6: the holding return of window H at date t is the formation return of
\* window H at date t + H, missing on the last H dates, and the steps that
\* build the holding tables leave the formation tables as they are.
C6_HoldingIsFormationAhead ==
    /\ []HoldingIsFormationAhead
    /\ [][pc = "hpr" => form' = form]_vars

C6_Witness ==
    \E H \in DOMAIN hpr : \E tk \in AllTickers : \E t \in Dates :
        /\ ~IsNaN(hpr[H][tk][t])
        /\ hpr[H][tk][t] # form[H][tk][t]
        /\ IsNaN(hpr[H][tk][NumDates])
        /\ ~IsNaN(form[H][tk][NumDates])

ConstantPrice(tk) ==
    \A t \in Dates :
        /\ ~IsNaN(stock_prices[tk][t])
        /\ stock_prices[tk][t] = stock_prices[tk][1]

\* C8 as stated: a ticker with a constant price has return 0 and premium 0
\* wherever they are defined, whatever the risk-free rates.
C8_ConstantPriceZeroPremium ==
    PremiumDone =>
        \A tk \in AllTickers : ConstantPrice(tk) =>
            \A t \in Dates :
                /\ ~IsNaN(stock_rets[tk][t]) => stock_rets[tk][t] = Num(0)
                /\ ~IsNaN(stock_premium[tk][t]) =>
                       stock_premium[tk][t] = Num(0)

\* C8 amended: a ticker with a constant price has return 0 wherever the
\* return is defined, and its premium is minus the risk-free rate of the
\* date wherever the premium is defined.
C8_ConstantPriceMinusRate ==
    PremiumDone =>
        \A tk \in AllTickers : ConstantPrice(tk) =>
            \A t \in Dates :
                /\ ~IsNaN(stock_rets[tk][t]) => stock_rets[tk][t] = Num(0)
                /\ ~IsNaN(stock_premium[tk][t]) =>
                       stock_premium[tk][t] = FSub(Num(0), risk_free[t])

C8_Witness ==
    /\ PremiumDone
    /\ \E tk \in AllTickers : \E t \in Dates :
        /\ ConstantPrice(tk)
        /\ ~IsNaN(stock_premium[tk][t])
        /\ stock_premium[tk][t] # Num(0)

\* the tickers with a formation return at date t
Present(F, t) == {tk \in AllTickers : ~IsNaN(form[F][tk][t])}

\* the buckets a portfolio statement of formation window F selects at date t
LongBucket(F, t) == {tk \in AllTickers : LongMask(f_ranks[F])[tk][t]}

ShortBucket(F, t) ==
    {tk \in AllTickers : ShortMask(f_ranks[F], f_max[F])[tk][t]}

\* the instruments with rank >= maxRank(t) - K
BottomBucket(F, t) ==
    {tk \in AllTickers : BottomMask(f_ranks[F], f_max[F])[tk][t]}

\* sum of the holding returns of window H at date t over the tickers of S
\* that have one
HoldingSum(H, t, S) ==
    SumOver({tk \in S : ~IsNaN(hpr[H][tk][t])},
            [tk \in AllTickers |-> hpr[H][tk][t]])

\* C1: at every date the short bucket of a portfolio statement is exactly
\* the set of instruments with rank >= maxRank(t) - K.
C1_ShortBucketIsBottom ==
    \A F \in DOMAIN f_ranks : \A t \in Dates :
        ShortBucket(F, t) = BottomBucket(F, t)

\* C2: the daily return is (1/K) times the sum of the holding returns of the
\* long bucket minus the average of the holding returns of the short bucket,
\* on every date where the short bucket has a holding return.
C2_ShortSideIsAverage ==
    \A fh \in DOMAIN port : \A t \in Dates :
        LET F == fh[1]
            H == fh[2]
            short == {tk \in ShortBucket(F, t) : ~IsNaN(hpr[H][tk][t])}
        IN  short # {} =>
              port[fh][t] =
                FSub(FMul(Rat(1, K), HoldingSum(H, t, LongBucket(F, t))),
                     FMul(Rat(1, Cardinality(short)), HoldingSum(H, t, short)))

\* C3: on a date where no instrument has a formation rank, or that is one of
\* the last H dates, the daily and the cumulative return are missing.
C3_MissingPropagates ==
    \A fh \in DOMAIN port : \A t \in Dates :
        LET F == fh[1]
            H == fh[2]
        IN  (Present(F, t) = {} \/ t > NumDates - H) =>
               /\ IsNaN(port[fh][t])
               /\ IsNaN(cumrets[fh][t])

RanksOf(F, t, S) == {f_ranks[F][tk][t] : tk \in S}

Distinct(F, t) ==
    \A a, b \in Present(F, t) : a # b => form[F][a][t] # form[F][b][t]

C7_BucketsDisjoint ==
    \A F \in DOMAIN f_ranks : \A t \in Dates :
        Cardinality(Present(F, t)) >= 2 * K =>
            LongBucket(F, t) \cap ShortBucket(F, t) = {}

\* the first date with a daily return
FirstValid(rets) ==
    CHOOSE t \in Dates :
        /\ ~IsNaN(rets[t])
        /\ \A s \in 1..(t - 1) : IsNaN(rets[s])

\* C9: the cumulative return at the first valid date is the daily return of
\* that date, and at every later date t it is
\* (1 + cumulative(t-1)) * (1 + daily(t)) - 1.
C9_CompoundingRecurrence ==
    \A fh \in DOMAIN port :
        /\ \E t \in Dates : ~IsNaN(port[fh][t])
        /\ LET first == FirstValid(port[fh])
           IN  /\ cumrets[fh][first] = port[fh][first]
               /\ \A t \in Dates : t > first =>
                      cumrets[fh][t] =
                          FSub(FMul(FAdd(Num(1), cumrets[fh][t - 1]),
                                    FAdd(Num(1), port[fh][t])),
                               Num(1))

\* two dates with a non-zero daily return, compounded
C9_Witness ==
    \E fh \in DOMAIN port : \E t \in Dates :
        /\ t > 1
        /\ cumrets[fh][t - 1] # Num(0)
        /\ port[fh][t] # Num(0)
        /\ cumrets[fh][t] # FAdd(cumrets[fh][t - 1], port[fh][t])

====
